---------------------------- MODULE Spec2Model ----------------------------
(***************************************************************************)
(* Model of the eSCL scan client (src/escl_client.py) and of the parts of  *)
(* the scanning application built on it (src/scan_app.py).                 *)
(*                                                                         *)
(* Text is modelled as a sequence of atoms: an atom is a piece of text     *)
(* that no keyword of the program straddles ("Adf", "State", "<", " ").    *)
(* "AdfState" is <<"Adf", "State">>; a keyword occurs in a text when its   *)
(* atoms occur in it contiguously, after lower-casing.                     *)
(***************************************************************************)
EXTENDS Integers, Sequences, FiniteSets, TLC

(***************************************************************************)
(* Bounds of the model.                                                    *)
(***************************************************************************)
\* number of child elements of the root of a generated status report
MaxElems == 2
\* number of pages of a scanned document
MaxPages == 3
\* number of scan_to_pdf calls made one after the other by a scan flow
MaxCalls == 2
MaxProbes == 3

(***************************************************************************)
(* Text: str.lower() and the substring test `kw in text`.                  *)
(***************************************************************************)
LowerAtom(a) ==
    CASE a = "Feeder"   -> "feeder"
      [] a = "Loaded"   -> "loaded"
      [] a = "Adf"      -> "adf"
      [] a = "Status"   -> "status"
      [] a = "State"    -> "state"
      [] a = "Input"    -> "input"
      [] a = "Source"   -> "source"
      [] a = "Paper"    -> "paper"
      [] a = "Empty"    -> "empty"
      [] a = "Platen"   -> "platen"
      [] a = "Ready"    -> "ready"
      [] a = "Tray"     -> "tray"
      [] a = "Document" -> "document"
      [] a = "Media"    -> "media"
      [] a = "Device"   -> "device"
      [] a = "Color"    -> "color"
      [] a = "Gray"     -> "gray"
      [] a = "GRAY"     -> "gray"
      [] OTHER          -> a

lower(s) == [i \in DOMAIN s |-> LowerAtom(s[i])]

\* Python's `kw in s` on strings
In(kw, s) ==
    \E i \in 1..(Len(s) - Len(kw) + 1) : SubSeq(s, i, i + Len(kw) - 1) = kw

\* any(k in s for k in kws), kws a sequence of keywords
AnyIn(kws, s) == \E n \in DOMAIN kws : In(kws[n], s)

(***************************************************************************)
(* xml.etree.ElementTree.fromstring on the subset of XML made of elements  *)
(* and character data.  Markup atoms: "<" opens a start tag, "</" an end   *)
(* tag, ">" closes either.  The result is [ok |-> FALSE] (ParseError) or   *)
(* [ok |-> TRUE, elems |-> the elements in document order], each element   *)
(* with its tag and its text (the character data that directly follows     *)
(* its start tag, as ElementTree's elem.text).                             *)
(***************************************************************************)
Markup == {"<", "</", ">"}
Blank == {" "}
NotName == Markup \cup Blank \cup {":"}

\* least index j >= i with s[j] in S, or Len(s) + 1
RECURSIVE Find(_, _, _)
Find(s, i, S) ==
    IF i > Len(s) THEN Len(s) + 1
    ELSE IF s[i] \in S THEN i
    ELSE Find(s, i + 1, S)

IsName(s) == Len(s) > 0 /\ \A i \in DOMAIN s : s[i] \notin NotName

IsBlank(s) == \A i \in DOMAIN s : s[i] \in Blank

ParseError == [ok |-> FALSE, elems |-> <<>>]

\* stack: the tags of the open elements; closed: the root element has ended
RECURSIVE ParseFrom(_, _, _, _, _)
ParseFrom(s, i, stack, elems, closed) ==
    IF i > Len(s) THEN
        IF stack = <<>> /\ closed THEN [ok |-> TRUE, elems |-> elems]
        ELSE ParseError
    ELSE IF s[i] = "<" THEN
        LET j == Find(s, i + 1, Markup)
            name == SubSeq(s, i + 1, j - 1)
            k == Find(s, j + 1, Markup)
            text == SubSeq(s, j + 1, k - 1)
        IN  IF j > Len(s) \/ s[j] # ">" \/ ~IsName(name) \/ closed
            THEN ParseError
            ELSE ParseFrom(s, k, Append(stack, name),
                           Append(elems, [tag |-> name, text |-> text]), closed)
    ELSE IF s[i] = "</" THEN
        LET j == Find(s, i + 1, Markup)
            name == SubSeq(s, i + 1, j - 1)
            k == Find(s, j + 1, Markup)
            tail == SubSeq(s, j + 1, k - 1)
        IN  IF j > Len(s) \/ s[j] # ">" \/ stack = <<>>
            THEN ParseError
            ELSE IF stack[Len(stack)] # name THEN ParseError
            ELSE IF Len(stack) = 1 /\ ~IsBlank(tail) THEN ParseError
            ELSE ParseFrom(s, k, SubSeq(stack, 1, Len(stack) - 1), elems,
                           Len(stack) = 1)
    ELSE IF s[i] = ">" THEN ParseError
    ELSE \* character data outside the root element
        LET k == Find(s, i, Markup)
        IN  IF IsBlank(SubSeq(s, i, k - 1)) THEN ParseFrom(s, k, stack, elems, closed)
            ELSE ParseError

fromstring(s) == ParseFrom(s, 1, <<>>, <<>>, FALSE)


(***************************************************************************)
(* ESCLScanner.get_status and ESCLScanner.choose_input_source.             *)
(* A status response is what GET <base>/ScannerStatus comes to:            *)
(* [ok |-> FALSE] when the request raises (transport failure, or an error  *)
(* status at raise_for_status), else [ok |-> TRUE, body |-> r.text].       *)
(***************************************************************************)
StatusFail == [ok |-> FALSE, body |-> <<>>]

adf          == <<"adf">>
loaded       == <<"loaded">>
present      == <<"present">>
haspaper     == <<"has", "paper">>
feeder       == <<"feeder">>
inputsource  == <<"input", "source">>
media        == <<"media">>
documentfeeder == <<"document", "feeder">>
ready        == <<"ready">>
inputtray    == <<"input", "tray">>
paper        == <<"paper">>

\* the list adf_indicators, text being xml.lower()
adf_indicators(text) ==
    << In(adf, text) /\ In(loaded, text),
       In(adf, text) /\ In(present, text),
       In(adf, text) /\ In(haspaper, text),
       In(feeder, text) /\ In(loaded, text),
       In(inputsource, text) /\ In(feeder, text),
       In(media, text) /\ In(feeder, text),
       In(documentfeeder, text) /\ (In(loaded, text) \/ In(ready, text)),
       In(inputtray, text) /\ In(adf, text),
       In(paper, text) /\ (In(adf, text) \/ In(feeder, text)) >>

any(bs) == \E n \in DOMAIN bs : bs[n]

\* first test of the loop body: an input-source element naming the feeder
InputSourceRule(elem) ==
    LET tag_lower == lower(elem.tag)
        text_lower == lower(elem.text)
    IN  /\ In(<<"input">>, tag_lower) /\ In(<<"source">>, tag_lower)
        /\ (In(feeder, text_lower) \/ In(adf, text_lower))

\* second test of the loop body: a media/paper/document element of the feeder
\* whose text is a loaded status
MediaRule(elem) ==
    LET tag_lower == lower(elem.tag)
        text_lower == lower(elem.text)
    IN  /\ AnyIn(<<media, paper, <<"document">> >>, tag_lower)
        /\ AnyIn(<<loaded, present, ready>>, text_lower)
        /\ AnyIn(<<adf, feeder>>, tag_lower)

\* the loop over root.iter(): stops at the first element that matches
RECURSIVE ScanElements(_, _)
ScanElements(elems, i) ==
    IF i > Len(elems) THEN FALSE
    ELSE IF InputSourceRule(elems[i]) THEN TRUE
    ELSE IF MediaRule(elems[i]) THEN TRUE
    ELSE ScanElements(elems, i + 1)

\* faulty variant: a report that cannot be parsed is taken for a loaded feeder
choose_input_source_UnparsedFeeder(resp) ==
    IF ~resp.ok THEN "Platen"
    ELSE LET root == fromstring(resp.body)
         IN  IF ~root.ok THEN "Feeder"
             ELSE IF any(adf_indicators(lower(resp.body))) \/ ScanElements(root.elems, 1)
                  THEN "Feeder" ELSE "Platen"

\* faulty variant: Feeder only when both the text and the elements say so
choose_input_source_Both(resp) ==
    IF ~resp.ok THEN "Platen"
    ELSE LET root == fromstring(resp.body)
         IN  IF ~root.ok THEN "Platen"
             ELSE IF any(adf_indicators(lower(resp.body))) /\ ScanElements(root.elems, 1)
                  THEN "Feeder" ELSE "Platen"

choose_input_source(resp) ==
    IF ~resp.ok THEN "Platen"                       \* get_status raised
    ELSE LET root == fromstring(resp.body)
         IN  IF ~root.ok THEN "Platen"              \* ParseError
             ELSE LET text == lower(resp.body)
                      adf_has_pages ==
                          any(adf_indicators(text)) \/ ScanElements(root.elems, 1)
                  IN  IF adf_has_pages THEN "Feeder" ELSE "Platen"

\* start_job, lines 53-60: the source of the primary submission
ResolveSource(input_source, resp) ==
    IF input_source = "Feeder" THEN "Feeder"
    ELSE IF input_source = "Platen" THEN "Platen"
    ELSE choose_input_source(resp)

\* faulty variant: the status is asked for whatever the override
NeedsStatus_Always(input_source) == TRUE

\* whether start_job asks the device for its status
NeedsStatus(input_source) == input_source \notin {"Feeder", "Platen"}

\* ScanApp._determine_scan_source: cfg is the configured input_source,
\* probe the answer to its own get_status(), resp the answer to the
\* get_status() of choose_input_source
determine_scan_source(cfg, probe, resp) ==
    IF cfg = "Feeder (ADF)" THEN "Feeder"
    ELSE IF cfg = "Platen (Flatbed)" THEN "Platen"
    ELSE IF ~probe.ok THEN "Platen"
    ELSE choose_input_source(resp)

AppNeedsStatus(cfg) == cfg \notin {"Feeder (ADF)", "Platen (Flatbed)"}

\* the requests start_job sends before its first POST (lines 53-60)
start_job_requests(input_source) ==
    IF NeedsStatus(input_source) THEN <<"GET ScannerStatus">> ELSE <<>>

\* the requests _determine_scan_source sends: its own get_status() and, when
\* that one is answered, the get_status() of choose_input_source
determine_scan_source_requests(cfg, probe) ==
    IF ~AppNeedsStatus(cfg) THEN <<>>
    ELSE IF ~probe.ok THEN <<"GET ScannerStatus">>
    ELSE <<"GET ScannerStatus", "GET ScannerStatus">>

(***************************************************************************)
(* Status reports the device may send.                                     *)
(***************************************************************************)
ElemNames ==
    { <<"Adf", "State">>, <<"Input", "Source">>, <<"Input", "Device", "Source">>,
      <<"Feeder", "Paper">>, <<"State">> }

ElemTexts ==
    { <<>>, <<"Loaded">>, <<"Empty">>, <<"Feeder">>,
      <<"Feeder", ":", " ", "Loaded">> }

Elems == [tag : ElemNames, text : ElemTexts]

RECURSIVE SeqsUpTo(_, _)
SeqsUpTo(S, n) ==
    IF n = 0 THEN {<<>>}
    ELSE LET shorter == SeqsUpTo(S, n - 1)
         IN  shorter \cup {Append(q, x) : q \in {t \in shorter : Len(t) = n - 1}, x \in S}

SerializeElem(e) ==
    <<"<">> \o e.tag \o <<">">> \o e.text \o <<"</">> \o e.tag \o <<">">>

RECURSIVE SerializeAll(_)
SerializeAll(es) ==
    IF es = <<>> THEN <<>>
    ELSE SerializeElem(Head(es)) \o SerializeAll(Tail(es))

\* a report: a root element Status and its children
Serialize(es) ==
    <<"<", "Status", ">">> \o SerializeAll(es) \o <<"</", "Status", ">">>

WellFormedBodies == {Serialize(es) : es \in SeqsUpTo(Elems, MaxElems)}

\* plain text, an empty body, a report cut short, a report with text after it
OtherBodies ==
    { <<"Feeder", ":", " ", "Loaded">>,
      <<>>,
      <<"Adf", " ", "Empty">>,
      <<"<", "Status", ">", "<", "Adf", "State", ">", "Loaded">>,
      <<"<", "Status", ">", "</", "Status", ">", "Feeder", " ", "Ready">>,
      <<"<", "Status", ">", "Feeder", ":", " ", "Loaded", "</", "Status", ">", " ">> }

StatusResponses ==
    {StatusFail} \cup {[ok |-> TRUE, body |-> b] : b \in WellFormedBodies \cup OtherBodies}


(***************************************************************************)
(* State.                                                                  *)
(***************************************************************************)
VARIABLES
    \* --- one scan flow: scan_to_pdf calls made one after the other
    pc,            \* position of the running call
    calls,         \* scan_to_pdf calls started so far
    input_source,  \* the input_source argument of the call
    settings,      \* the dpi, color_mode and page_size arguments of the call
    source,        \* start_job's local `source`
    attempt,       \* start_job's loop variable: primary POSTs made
    last_err,      \* start_job's local `last_err`
    job_location,  \* the handle start_job returned
    pending,       \* fetch_pdf: the exception in flight when `finally` runs
    result,        \* how the call ended
    net,           \* the requests of the running call, in the order sent
    out_path,      \* the file at out_path of the running call
    released,      \* the handles a DELETE has been issued for (all calls)
    next_job,      \* device: the number of the next job it creates
    \* --- the input-source decision taken as a function of its inputs
    r_report,      \* answer to the GET ScannerStatus of choose_input_source
    r_probe,       \* answer to the GET ScannerStatus of _determine_scan_source
    r_path,        \* "start_job" or "app": who decided
    r_override,    \* the input_source argument / the configured input_source
    r_source,      \* the decision
    r_requests,    \* the requests sent to reach it
    \* --- the duplex merge
    front_pdf,     \* pages of the front document
    back_pdf,      \* pages of the back document
    output_pdf,    \* pages written to the output path
    merged,        \* whether _combine_duplex_pdfs has run
    \* --- cancel_job as a function of the handle and of the device's answer
    c_handle,      \* the job_location argument
    c_status,      \* the status the DELETE was answered with, 0 for no answer
    c_outcome,     \* how cancel_job ended
    \* --- the optional queries as functions of the device's answer
    q_op,          \* the query called
    q_status,      \* the status the GET was answered with, 0 for no answer
    q_text,        \* the body of the answer
    q_outcome,     \* how the query ended
    \* --- one run of on_scan_manual_duplex
    d_pc,            \* position of the handler
    files,           \* the files at front_path, back_path and final_path
    last_saved_path, \* ScanApp.last_saved_path
    d_error,         \* what made the handler fail
    \* --- the resolution from the configuration to the request
    cfg_dpi,         \* config["scanner"]["dpi"]
    spin_dpi,        \* PreferencesDialog.spin_dpi, 0 while no dialog is open
    p_xml,           \* the body of the last request on_scan had submitted
    \* --- the main window and its network monitor
    u_host,          \* config["scanner"]["host"]
    u_threads,       \* the probe threads that are running _check_printer_once
    u_queue,         \* the `done` signals emitted and not yet delivered
    u_started,       \* probes started so far
    u_restart,       \* u_started when the monitor was last restarted by on_prefs
    net_label,       \* the probe result the status row shows
    btn_scan,        \* enabled state of the scan buttons
    btn_open_file,   \* enabled state of "Ouvrir le fichier"
    btn_open_loc,    \* enabled state of "Ouvrir l'emplacement"
    u_saved,         \* whether last_saved_path is set
    u_exists         \* whether the file at last_saved_path exists

scanVars == <<pc, calls, input_source, settings, source, attempt, last_err, job_location,
              pending, result, net, out_path, released, next_job>>
resolveVars == <<r_report, r_probe, r_path, r_override, r_source, r_requests>>
mergeVars == <<front_pdf, back_pdf, output_pdf, merged>>
queryVars == <<c_handle, c_status, c_outcome, q_op, q_status, q_text, q_outcome>>
duplexVars == <<d_pc, files, last_saved_path, d_error>>
prefVars == <<cfg_dpi, spin_dpi, p_xml>>
uiVars == <<u_host, u_threads, u_queue, u_started, u_restart, net_label, btn_scan,
            btn_open_file, btn_open_loc, u_saved, u_exists>>
vars == <<scanVars, resolveVars, mergeVars, queryVars, duplexVars, prefVars, uiVars>>

\* the status row before the first result: "Vérification de l'imprimante…"
NoProbe == [seq |-> 0, host |-> "none", reachable |-> FALSE]

\* ScanApp.__init__ up to the call of start_net_monitor
UiIdle ==
    /\ u_host = "A"
    /\ u_threads = {}
    /\ u_queue = <<>>
    /\ u_started = 0
    /\ u_restart = 0
    /\ net_label = NoProbe
    /\ btn_scan = TRUE
    /\ btn_open_file = FALSE
    /\ btn_open_loc = FALSE
    /\ u_saved = FALSE
    /\ u_exists = FALSE

\* no request body yet
NoXml == [InputSource |-> "none", ColorMode |-> "none", Duplex |-> "none",
          MediaSizeName |-> "none", XResolution |-> 0, YResolution |-> 0]

\* the resolution s.get("dpi", 300) falls back to, no dialog, nothing
\* submitted
PrefIdle ==
    /\ cfg_dpi = 300
    /\ spin_dpi = 0
    /\ p_xml = NoXml

\* a path with no file, a PDF file with its pages, a file that is not a PDF
NoFile == [kind |-> "absent", pages |-> <<>>]
Pdf(pages) == [kind |-> "pdf", pages |-> pages]
Garbage == [kind |-> "garbage", pages |-> <<>>]

DuplexIdle ==
    /\ d_pc = "idle"
    /\ files = [recto |-> NoFile, verso |-> NoFile, final |-> NoFile]
    /\ last_saved_path = "none"
    /\ d_error = "none"

ResolveIdle ==
    /\ r_report = StatusFail
    /\ r_probe = StatusFail
    /\ r_path = "none"
    /\ r_override = "none"
    /\ r_source = "none"
    /\ r_requests = <<>>

QueryIdle ==
    /\ c_handle = <<>>
    /\ c_status = 0
    /\ c_outcome = [ended |-> FALSE, raised |-> FALSE, value |-> FALSE]
    /\ q_op = "none"
    /\ q_status = 0
    /\ q_text = ""
    /\ q_outcome = [raised |-> FALSE, none |-> FALSE, text |-> ""]

MergeIdle ==
    /\ front_pdf = <<>>
    /\ back_pdf = <<>>
    /\ output_pdf = <<>>
    /\ merged = FALSE


(***************************************************************************)
(* ESCLScanner.start_job, fetch_pdf and scan_to_pdf: one action for each   *)
(* HTTP exchange and the code that runs up to the next one.                *)
(***************************************************************************)
\* range(6): the primary attempts
Attempts == 6

\* the input_source argument; "None" is Python's None
Overrides == {"Feeder", "Platen", "Auto", "None"}

\* HTTP statuses the device answers with; [st |-> 0] stands for a request that
\* got no response (timeout, connection refused): requests raises
StatusCodes == {201, 404, 409, 503}
NoResponse == [st |-> 0, loc |-> "none"]

\* the Location header of a response: missing, absolute, starting with "/"
\* ("slash": /Jobs/1, "rooted": /eSCL/ScanJobs/1), or relative without a
\* leading slash
LocKinds == {"none", "absolute", "slash", "rooted", "relative"}

PostResponses ==
    {NoResponse}
      \cup [st : {c \in StatusCodes : c >= 400}, loc : {"none"}]
      \cup [st : {c \in StatusCodes : c < 400}, loc : LocKinds]

\* r.raise_for_status()
RaisesForStatus(st) == st >= 400 /\ st < 600

\* the device creates a job when it answers a submission with success
Creates(resp) == resp # NoResponse /\ ~RaisesForStatus(resp.st)

None == [type |-> "None", status |-> 0]
HTTPError(st) == [type |-> "HTTPError", status |-> st]

NoJob == [job |-> 0, uri |-> <<>>]

\* self.base for the host "dev": http://dev/eSCL/
base == <<"http://", "dev", "/", "eSCL", "/">>

\* the value of the Location header the device gives job number `job`
LocationHeader(loc, job) ==
    CASE loc = "absolute" -> base \o <<"ScanJobs", "/", ToString(job)>>
      [] loc = "slash"    -> <<"/", "Jobs", "/", ToString(job)>>
      [] loc = "rooted"   -> <<"/", "eSCL", "/", "ScanJobs", "/", ToString(job)>>
      [] loc = "relative" -> <<"ScanJobs", "/", ToString(job)>>
      [] OTHER            -> <<>>

Schemes == {"http://", "https://"}

\* a URI with a scheme
IsAbsolute(uri) == Len(uri) > 0 /\ uri[1] \in Schemes

\* s.startswith("/")
startswith_slash(s) == Len(s) > 0 /\ s[1] = "/"

\* s.lstrip("/")
RECURSIVE lstrip_slash(_)
lstrip_slash(s) == IF startswith_slash(s) THEN lstrip_slash(Tail(s)) ELSE s

\* the last position of "/" in s, 0 if none
RECURSIVE LastSlash(_, _)
LastSlash(s, i) == IF i = 0 THEN 0 ELSE IF s[i] = "/" THEN i ELSE LastSlash(s, i - 1)

\* urllib.parse.urljoin(b, url), b absolute, for references free of "." and
\* ".." segments: a reference with a scheme is the result; one that starts
\* with "/" replaces the path of b; any other replaces the last segment of b
urljoin(b, url) ==
    IF url = <<>> THEN b
    ELSE IF IsAbsolute(url) THEN url
    ELSE IF startswith_slash(url) THEN SubSeq(b, 1, 2) \o url
    ELSE SubSeq(b, 1, LastSlash(b, Len(b))) \o url

\* faulty variant: the Location is returned as the device sent it
JobLocation_Unresolved(loc, job) == [job |-> job, uri |-> LocationHeader(loc, job)]

\* lines 80-85 and 98-103: a Location that starts with "/" is joined to base
JobLocation(loc, job) ==
    LET job_location_ == LocationHeader(loc, job)
    IN  [job |-> job,
         uri |-> IF startswith_slash(job_location_)
                 THEN urljoin(base, lstrip_slash(job_location_))
                 ELSE job_location_]

\* faulty variant: the fallback submits the source of the primary attempts again
fallback_source_Same(src) == src

\* line 94
fallback_source(src) == IF src = "Platen" THEN "Feeder" ELSE "Platen"

\* faulty variant: the loop goes on after an error status
BreaksLoop_Never(st) == FALSE

\* line 89: `if getattr(e.response, "status_code", None) != 409: break`
BreaksLoop(st) == st # 409

\* faulty variant: the job is released only when the document was fetched
ReleaseRuns_OnSuccess(exc) == exc = "none"

\* lines 130-135: `finally` runs the DELETE whatever the `try` block did
ReleaseRuns(exc) == TRUE

\* faulty variant: a failed fetch is tried again after the release
AfterRelease_Retry(exc) == IF exc = "none" THEN "done" ELSE "get"

\* fetch_pdf after `finally`: return out_path, or the exception goes on
AfterRelease(exc) == IF exc = "none" THEN "done" ELSE "failed"

NoResult == [kind |-> "none", type |-> "none", last |-> None]
Returned == [kind |-> "returned", type |-> "none", last |-> None]
Raised(type, err) == [kind |-> "raised", type |-> type, last |-> err]

Request(m, to, src, job, resp) ==
    [m |-> m, to |-> to, src |-> src, job |-> job, st |-> resp.st, loc |-> resp.loc]

\* the dpi, color_mode and page_size arguments of scan_to_pdf
Settings ==
    { [dpi |-> 300, color_mode |-> <<"Color">>, page_size |-> "A4"],
      [dpi |-> 600, color_mode |-> <<"GRAY", "scale">>, page_size |-> "Letter"] }

\* faulty variant: the request asks for two-sided scanning
build_job_xml_Duplex(dpi, color_mode, page_size, src) ==
    [InputSource |-> src, ColorMode |-> "Color", Duplex |-> "Duplex",
     MediaSizeName |-> page_size, XResolution |-> dpi, YResolution |-> dpi]

\* _build_job_xml: the settings elements of the request body
build_job_xml(dpi, color_mode, page_size, src) ==
    [InputSource   |-> src,
     ColorMode     |-> IF Len(color_mode) > 0 /\ lower(color_mode)[1] = "gray"
                       THEN "Grayscale" ELSE "Color",
     Duplex        |-> "Simplex",
     MediaSizeName |-> page_size,
     XResolution   |-> dpi,
     YResolution   |-> dpi]

\* a POST to ScanJobs with its body and the answer it got
Submission(src, xml, resp) ==
    [m |-> "POST", to |-> "ScanJobs", src |-> src, job |-> 0, st |-> resp.st,
     loc |-> resp.loc, xml |-> xml]

\* status reports the device answers a running scan with
StatusSamples ==
    { StatusFail,
      [ok |-> TRUE, body |-> Serialize(<<[tag |-> <<"Adf", "State">>, text |-> <<"Loaded">>]>>)],
      [ok |-> TRUE, body |-> Serialize(<<[tag |-> <<"State">>, text |-> <<"Empty">>]>>)] }

ScanIdle ==
    /\ pc = "idle"
    /\ calls = 0
    /\ input_source = "None"
    /\ settings = [dpi |-> 300, color_mode |-> <<"Color">>, page_size |-> "A4"]
    /\ source = "none"
    /\ attempt = 0
    /\ last_err = None
    /\ job_location = NoJob
    /\ pending = "none"
    /\ result = NoResult
    /\ net = <<>>
    /\ out_path = "absent"
    /\ released = {}
    /\ next_job = 1

Init == ScanIdle /\ ResolveIdle /\ MergeIdle /\ QueryIdle /\ DuplexIdle /\ PrefIdle /\ UiIdle

\* scan_to_pdf is called; start_job runs up to its first request
ScanToPdf ==
    /\ pc \in {"idle", "done", "failed"}
    /\ calls < MaxCalls
    /\ \E o \in Overrides :
        /\ input_source' = o
        /\ source' = IF NeedsStatus(o) THEN "none" ELSE ResolveSource(o, StatusFail)
        /\ pc' = IF NeedsStatus(o) THEN "status" ELSE "post"
    /\ settings' \in Settings
    /\ calls' = calls + 1
    /\ attempt' = 0
    /\ last_err' = None
    /\ job_location' = NoJob
    /\ pending' = "none"
    /\ result' = NoResult
    /\ net' = <<>>
    \* the path of the call has no file yet, or an older one
    /\ out_path' \in {"absent", "old"}
    /\ UNCHANGED <<released, next_job, resolveVars, mergeVars, queryVars, duplexVars, prefVars, uiVars>>

\* choose_input_source: GET ScannerStatus and the decision
GetStatus ==
    /\ pc = "status"
    /\ \E resp \in StatusSamples :
        /\ source' = ResolveSource(input_source, resp)
        /\ net' = Append(net, Request("GET", "ScannerStatus", "none", 0,
                                      [st |-> IF resp.ok THEN 200 ELSE 0, loc |-> "none"]))
    /\ pc' = "post"
    /\ UNCHANGED <<calls, input_source, settings, out_path, attempt, last_err, job_location, pending,
                   result, released, next_job, resolveVars, mergeVars, queryVars, duplexVars, prefVars, uiVars>>

\* faulty variant: a loop that goes on for as long as the device is busy
range_continues_Forever(done) == TRUE

\* line 72, `for attempt in range(6)`: whether a pass follows once `done`
\* passes have been made
range_continues(done) == done < Attempts

\* faulty variant: only an acceptance of the first pass is returned
ReturnsHandle_FirstOnly(pass) == pass = 1

\* line 85: `return job_location` inside the loop, whatever the pass
ReturnsHandle(pass) == TRUE

\* faulty variant: scan_to_pdf goes on to fetch_pdf when start_job raised
scan_to_pdf_after_raise_Fetch == "get"

\* lines 151-157: scan_to_pdf has no handler, so an exception of start_job
\* ends the call
scan_to_pdf_after_raise == "failed"

\* faulty variant: the loop catches every exception
CaughtInLoop_Any(exc) == TRUE

\* line 86: the exceptions the `except` clause of the loop catches
CaughtInLoop(exc) == exc = "HTTPError"

\* one pass of the loop of lines 72-90
PostPrimary ==
    /\ pc = "post"
    /\ \E resp \in PostResponses :
        /\ net' = Append(net, Submission(source,
                           build_job_xml(settings.dpi, settings.color_mode,
                                         settings.page_size, source), resp))
        /\ next_job' = IF Creates(resp) THEN next_job + 1 ELSE next_job
        /\ attempt' = attempt + 1
        /\ IF resp = NoResponse /\ ~CaughtInLoop("ConnectionError") THEN
               \* requests.post raises; no except clause matches
               /\ pc' = scan_to_pdf_after_raise
               /\ result' = Raised("ConnectionError", None)
               /\ UNCHANGED <<last_err, job_location>>
           ELSE IF resp = NoResponse THEN
               \* the handler of lines 86-90: no status 409, so break
               /\ last_err' = [type |-> "ConnectionError", status |-> 0]
               /\ pc' = "fallback"
               /\ UNCHANGED <<job_location, result>>
           ELSE IF resp.st = 409 THEN
               \* sleep and continue
               /\ pc' = IF range_continues(attempt + 1) THEN "post" ELSE "fallback"
               /\ UNCHANGED <<last_err, job_location, result>>
           ELSE IF RaisesForStatus(resp.st) THEN
               /\ last_err' = HTTPError(resp.st)
               /\ pc' = IF BreaksLoop(resp.st) \/ ~range_continues(attempt + 1)
                        THEN "fallback" ELSE "post"
               /\ UNCHANGED <<job_location, result>>
           ELSE IF resp.loc = "none" THEN
               \* RuntimeError: no except clause matches
               /\ pc' = scan_to_pdf_after_raise
               /\ result' = Raised("RuntimeError: no Location", None)
               /\ UNCHANGED <<last_err, job_location>>
           ELSE IF ReturnsHandle(attempt + 1) THEN
               /\ job_location' = JobLocation(resp.loc, next_job)
               /\ pc' = "get"
               /\ UNCHANGED <<last_err, result>>
           ELSE
               /\ pc' = IF range_continues(attempt + 1) THEN "post" ELSE "fallback"
               /\ UNCHANGED <<last_err, job_location, result>>
    /\ UNCHANGED <<calls, input_source, settings, out_path, source, pending, released,
                   resolveVars, mergeVars, queryVars, duplexVars, prefVars, uiVars>>

\* lines 92-107: the one submission with the other source
PostFallback ==
    /\ pc = "fallback"
    /\ \E resp \in PostResponses :
        /\ net' = Append(net, Submission(fallback_source(source),
                           build_job_xml(settings.dpi, settings.color_mode,
                                         settings.page_size, fallback_source(source)),
                           resp))
        /\ next_job' = IF Creates(resp) THEN next_job + 1 ELSE next_job
        /\ IF Creates(resp) /\ resp.loc # "none" THEN
               /\ job_location' = JobLocation(resp.loc, next_job)
               /\ pc' = "get"
               /\ UNCHANGED result
           ELSE
               \* except Exception: pass; then line 107
               /\ pc' = scan_to_pdf_after_raise
               /\ result' = Raised("RuntimeError: unable to start", last_err)
               /\ UNCHANGED job_location
    /\ UNCHANGED <<calls, input_source, settings, out_path, source, attempt, last_err, pending, released,
                   resolveVars, mergeVars, queryVars, duplexVars, prefVars, uiVars>>

\* what the `try` block of fetch_pdf ends with
FetchReplies ==
    { [st |-> 0, io |-> "none"], [st |-> 404, io |-> "none"], [st |-> 503, io |-> "none"],
      [st |-> 200, io |-> "ok"], [st |-> 200, io |-> "open fails"],
      [st |-> 200, io |-> "write fails"], [st |-> 200, io |-> "stream breaks"] }

FetchException(r) ==
    IF r.st = 0 THEN "ConnectionError"
    ELSE IF RaisesForStatus(r.st) THEN "HTTPError"
    ELSE IF r.io \in {"open fails", "write fails"} THEN "OSError"
    ELSE IF r.io = "stream breaks" THEN "ChunkedEncodingError"
    ELSE "none"

\* fetch_pdf, lines 120-129: GET <job>/NextDocument into out_path
\* faulty variant: out_path is opened 'wb' before the GET is made
fetched_file_OpenFirst(r, old) ==
    IF r.st = 0 \/ RaisesForStatus(r.st) THEN "partial"
    ELSE IF r.io = "open fails" THEN old
    ELSE IF r.io = "ok" THEN "complete"
    ELSE "partial"

\* lines 123-128: the file at out_path after the `with` block; it is opened
\* 'wb' once raise_for_status has passed
fetched_file(r, old) ==
    IF r.st = 0 \/ RaisesForStatus(r.st) THEN old
    ELSE IF r.io = "open fails" THEN old
    ELSE IF r.io = "ok" THEN "complete"
    ELSE "partial"

FetchGet ==
    /\ pc = "get"
    /\ \E r \in FetchReplies :
        \* requests raises MissingSchema for a URL without a scheme
        /\ IsAbsolute(job_location.uri) \/ r.st = 0
        /\ net' = Append(net, Request("GET", "NextDocument", "none", job_location.job,
                                      [st |-> r.st, loc |-> "none"]))
        /\ pending' = FetchException(r)
        /\ out_path' = fetched_file(r, out_path)
        /\ IF ReleaseRuns(FetchException(r)) THEN
               /\ pc' = "delete"
               /\ UNCHANGED result
           ELSE
               /\ pc' = "failed"
               /\ result' = Raised(FetchException(r), None)
    /\ UNCHANGED <<calls, input_source, settings, source, attempt, last_err, job_location,
                   released, next_job, resolveVars, mergeVars, queryVars, duplexVars, prefVars, uiVars>>

\* faulty variant: a DELETE that got no response raises out of fetch_pdf
ReleaseError_Raises(st) == IF st = 0 THEN "ConnectionError" ELSE "none"

\* lines 131-135: the exception that leaves the `finally` block after the
\* DELETE was answered with st; the status is not looked at and an exception
\* of requests.delete is passed over
ReleaseError(st) == "none"

\* fetch_pdf, lines 130-135: DELETE <job>, its outcome ignored
Release ==
    /\ pc = "delete"
    /\ \E st \in {0, 200, 404} :
        /\ IsAbsolute(job_location.uri) \/ st = 0
        /\ net' = Append(net, Request("DELETE", "Job", "none", job_location.job,
                                   [st |-> st, loc |-> "none"]))
        \* an exception raised in `finally` replaces the one in flight
        /\ LET exc == IF ReleaseError(st) # "none" THEN ReleaseError(st) ELSE pending
           IN  /\ pc' = AfterRelease(exc)
               /\ result' = IF exc = "none" THEN Returned ELSE Raised(exc, None)
    /\ released' = released \cup {job_location.job}
    /\ UNCHANGED <<calls, input_source, settings, out_path, source, attempt, last_err, job_location,
                   pending, next_job, resolveVars, mergeVars, queryVars, duplexVars, prefVars, uiVars>>

Next == ScanToPdf \/ GetStatus \/ PostPrimary \/ PostFallback \/ FetchGet \/ Release

Spec == Init /\ [][Next]_vars


(***************************************************************************)
(* The input-source decision as a function of the override and of the      *)
(* device's status answers: start_job (lines 53-60) on its own, and        *)
(* ScanApp.on_scan, which decides with _determine_scan_source and hands    *)
(* the decision to scan_to_pdf as input_source.                            *)
(***************************************************************************)
\* the configured input_source; "Other" is any other stored value
Configured == {"Feeder (ADF)", "Platen (Flatbed)", "Auto", "Other"}

\* answers to the application's own get_status(): its body is only logged
ProbeResponses ==
    { StatusFail,
      [ok |-> TRUE, body |-> Serialize(<<[tag |-> <<"State">>, text |-> <<"Empty">>]>>)] }

\* on_scan, lines 551-567: the source start_job submits first
on_scan_source(cfg, probe, resp) ==
    ResolveSource(determine_scan_source(cfg, probe, resp), resp)

InitResolve ==
    /\ ScanIdle
    /\ UiIdle
    /\ PrefIdle
    /\ DuplexIdle
    /\ MergeIdle
    /\ QueryIdle
    /\ r_report \in StatusResponses
    /\ r_probe = StatusFail
    /\ r_path = "none"
    /\ r_override = "none"
    /\ r_source = "none"
    /\ r_requests = <<>>

StartJobResolve ==
    /\ r_path = "none"
    /\ \E o \in Overrides :
        /\ r_override' = o
        /\ r_source' = ResolveSource(o, r_report)
        /\ r_requests' = start_job_requests(o)
    /\ r_path' = "start_job"
    /\ UNCHANGED <<r_report, r_probe, scanVars, mergeVars, queryVars, duplexVars, prefVars, uiVars>>

AppResolve ==
    /\ r_path = "none"
    /\ \E cfg \in Configured, probe \in ProbeResponses :
        /\ AppNeedsStatus(cfg) \/ probe = StatusFail
        /\ r_override' = cfg
        /\ r_probe' = probe
        /\ r_source' = on_scan_source(cfg, probe, r_report)
        /\ r_requests' = determine_scan_source_requests(cfg, probe)
                           \o start_job_requests(determine_scan_source(cfg, probe, r_report))
    /\ r_path' = "app"
    /\ UNCHANGED <<r_report, scanVars, mergeVars, queryVars, duplexVars, prefVars, uiVars>>

NextResolve == StartJobResolve \/ AppResolve

SpecResolve == InitResolve /\ [][NextResolve]_vars

(***************************************************************************)
(* ScanApp._combine_duplex_pdfs on two documents that can be read: a       *)
(* document is the sequence of its pages.                                  *)
(***************************************************************************)
FrontPages == {"F1", "F2", "F3"}
BackPages == {"B1", "B2", "B3"}

\* faulty variant: the back pages are taken in the order scanned
reversed_Not(s) == s

\* line 799: list(reversed(back_pdf.pages))
reversed(s) == [i \in 1..Len(s) |-> s[Len(s) + 1 - i]]

\* faulty variant: the pages are reversed in place (pages.reverse())
pages_after_reversed_InPlace(s) == reversed(s)

\* line 799: what reversed() leaves in the sequence it is given; it builds
\* a new list and the argument stays as it was
pages_after_reversed(s) == s

\* faulty variant: the loop stops at the shorter document
max_Min(a, b) == IF a <= b THEN a ELSE b

\* line 802: max(front_count, back_count)
max(a, b) == IF a >= b THEN a ELSE b

\* lines 802-812: the loop `for i in range(max_pages)`, i counted from 0,
\* writer being the pages added so far
RECURSIVE Interleave(_, _, _, _, _)
Interleave(front, back_pages_reversed, i, max_pages, writer) ==
    IF i >= max_pages THEN writer
    ELSE LET w1 == IF i < Len(front) THEN Append(writer, front[i + 1]) ELSE writer
             w2 == IF i < Len(back_pages_reversed)
                   THEN Append(w1, back_pages_reversed[i + 1]) ELSE w1
         IN  Interleave(front, back_pages_reversed, i + 1, max_pages, w2)

combine_duplex_pdfs(front, back) ==
    Interleave(front, reversed(back), 0, max(Len(front), Len(back)), <<>>)

InitMerge ==
    /\ ScanIdle
    /\ UiIdle
    /\ PrefIdle
    /\ DuplexIdle
    /\ ResolveIdle
    /\ QueryIdle
    /\ front_pdf \in SeqsUpTo(FrontPages, MaxPages)
    /\ back_pdf \in SeqsUpTo(BackPages, MaxPages)
    /\ output_pdf = <<>>
    /\ merged = FALSE

CombineDuplexPdfs ==
    /\ ~merged
    /\ output_pdf' = combine_duplex_pdfs(front_pdf, back_pdf)
    /\ merged' = TRUE
    \* the inputs are opened 'rb' and only read (lines 781-787, 799, 806, 811)
    /\ front_pdf' = front_pdf
    /\ back_pdf' = pages_after_reversed(back_pdf)
    /\ UNCHANGED <<scanVars, resolveVars, queryVars, duplexVars, prefVars, uiVars>>

NextMerge == CombineDuplexPdfs

SpecMerge == InitMerge /\ [][NextMerge]_vars


(***************************************************************************)
(* Properties of start_job.                                                *)
(***************************************************************************)
IsPost(e) == e.m = "POST"

\* positions in net of the submissions that carry the resolved source
PrimaryPosts == {i \in DOMAIN net : IsPost(net[i]) /\ net[i].src = source}

\* positions in net of the submissions that carry the opposite source
FallbackPosts ==
    {i \in DOMAIN net : IsPost(net[i]) /\ net[i].src \in {"Feeder", "Platen"}
                        /\ net[i].src # source}

IsRejection(e) == e.st >= 400 /\ e.st # 409

PrimaryExhausted ==
    /\ Cardinality(PrimaryPosts) = 6
    /\ \A i \in PrimaryPosts : net[i].st = 409

PrimaryRejected == \E i \in PrimaryPosts : IsRejection(net[i])

\* C1: the resolved source is submitted at most 6 times; a submission answered
\* 409 that is not the sixth is followed by a submission of the same source (or
\* the call is about to make it); after a submission answered by an error status
\* other than 409 no submission carries the resolved source.
C1_PrimaryRetries ==
    /\ Cardinality(PrimaryPosts) <= 6
    /\ \A i \in PrimaryPosts :
        (net[i].st = 409 /\ Cardinality({j \in PrimaryPosts : j <= i}) < 6)
            => \/ i = Len(net) /\ pc = "post"
               \/ i < Len(net) /\ (i + 1) \in PrimaryPosts
    /\ \A i \in PrimaryPosts :
        IsRejection(net[i]) => /\ \A j \in PrimaryPosts : j <= i
                               /\ pc # "post"

\* five busy answers and a rejection: the sixth submission ends the attempts
C1_Witness ==
    /\ Cardinality(PrimaryPosts) = 6
    /\ Cardinality({i \in PrimaryPosts : net[i].st = 409}) = 5
    /\ \E i \in PrimaryPosts : IsRejection(net[i])
    /\ pc = "fallback"

\* C2: once the primary attempts ended by six busy answers or by a rejection,
\* start_job goes on with exactly one submission of the opposite source, made
\* after every primary one; whatever answers it but an acceptance (a 409 too)
\* ends the call in failure with nothing sent after it.
C2_SingleFallback ==
    /\ Cardinality(FallbackPosts) <= 1
    /\ \A i \in FallbackPosts : \A j \in PrimaryPosts : j < i
    /\ ((PrimaryExhausted \/ PrimaryRejected) /\ pc # "fallback")
           => Cardinality(FallbackPosts) = 1
    /\ (pc = "failed" /\ result.type = "RuntimeError: unable to start")
           => Cardinality(FallbackPosts) = 1
    /\ \A i \in FallbackPosts :
           (net[i].st >= 400 \/ net[i].st = 0) => i = Len(net) /\ pc = "failed"

\* six busy answers, then the fallback answered busy as well
C2_Witness ==
    /\ PrimaryExhausted
    /\ \E i \in FallbackPosts : net[i].st = 409
    /\ pc = "failed"

\* C3: a primary submission answered with success but without a Location does
\* not end start_job before the opposite source was submitted.
C3_MalformedAcceptanceFallsBack ==
    (\E i \in PrimaryPosts : net[i].st \in 1..399 /\ net[i].loc = "none")
        => (pc = "fallback" \/ FallbackPosts # {})

\* C4: the failure raised after a failed fallback describes the error that
\* ended the primary attempts.
C4_FailureCarriesPrimaryError ==
    (pc = "failed" /\ result.type = "RuntimeError: unable to start")
        => /\ result.last.type = "HTTPError"
           /\ \E i \in PrimaryPosts :
                /\ \A j \in PrimaryPosts : j <= i
                /\ result.last.status = net[i].st

(***************************************************************************)
(* Properties of fetch_pdf and scan_to_pdf.                                *)
(***************************************************************************)
NextDocumentGets == {i \in DOMAIN net : net[i].m = "GET" /\ net[i].to = "NextDocument"}
Deletes == {i \in DOMAIN net : net[i].m = "DELETE"}

\* fetch_pdf was called and has ended
FetchEnded == job_location # NoJob /\ pc \in {"done", "failed"}

\* C5: a call of fetch_pdf that has ended has sent exactly one DELETE, to the
\* handle it was given and after its GET of NextDocument; none is sent before.
C5_ReleaseOnce ==
    /\ Cardinality(Deletes) <= 1
    /\ \A d \in Deletes :
         /\ net[d].job = job_location.job
         /\ \E g \in NextDocumentGets : g < d /\ net[g].job = net[d].job
    /\ FetchEnded => Cardinality(Deletes) = 1

\* the fetch failed while the output file was written, and the job was released
C5_Witness ==
    /\ FetchEnded
    /\ pending = "OSError"
    /\ Cardinality(Deletes) = 1

\* C6: no GET or DELETE is sent to a handle a DELETE was issued for, in this
\* call of scan_to_pdf or in an earlier one of the flow.
C6_NoUseAfterRelease ==
    [][(Len(net') = Len(net) + 1 /\ net'[Len(net')].job # 0)
          => net'[Len(net')].job \notin released]_vars

\* two scans of one flow, each of them fetched and released
C6_Witness ==
    /\ calls = 2
    /\ pc = "done"
    /\ Cardinality(released) = 2

(***************************************************************************)
(* Properties of the input-source decision.                                *)
(***************************************************************************)
\* what the program's indicators and rules find in a status answer
FeederEvidence(resp) ==
    /\ resp.ok
    /\ \/ any(adf_indicators(lower(resp.body)))
       \/ LET root == fromstring(resp.body)
          IN  root.ok /\ \E i \in DOMAIN root.elems :
                             InputSourceRule(root.elems[i]) \/ MediaRule(root.elems[i])

ForcedFeeder == r_override \in {"Feeder", "Feeder (ADF)"}
ForcedPlaten == r_override \in {"Platen", "Platen (Flatbed)"}
AutoDetect == r_path # "none" /\ ~ForcedFeeder /\ ~ForcedPlaten

\* a status request of the decision failed
StatusFetchFailed == AutoDetect /\ (~r_report.ok \/ (r_path = "app" /\ ~r_probe.ok))

C8_RawTextSearched ==
    ( /\ r_path = "start_job"
      /\ r_override \in {"Auto", "None"}
      /\ r_report.ok
      /\ In(<<"Feeder", ":", " ", "Loaded">>, r_report.body) )
        => r_source = "Feeder"

FeederWords == <<feeder, adf, documentfeeder, inputtray>>
LoadedWords == <<loaded, present, ready, haspaper>>

\* feeder-loaded evidence: a feeder word together with a loaded word in the raw
\* text, or a parsed element that matches one of the two structural rules
LoadedEvidence(resp) ==
    /\ resp.ok
    /\ \/ AnyIn(FeederWords, lower(resp.body)) /\ AnyIn(LoadedWords, lower(resp.body))
       \/ LET root == fromstring(resp.body)
          IN  root.ok /\ \E i \in DOMAIN root.elems :
                             InputSourceRule(root.elems[i]) \/ MediaRule(root.elems[i])

\* C9: in Auto mode Feeder is selected only on feeder-loaded evidence.
C9_OnlyOnLoadedEvidence ==
    (r_path = "start_job" /\ r_override \in {"Auto", "None"} /\ r_source = "Feeder")
        => LoadedEvidence(r_report)

\* the two channels of evidence on a report
TextualMatch(resp) == any(adf_indicators(lower(resp.body)))

StructuralMatch(root) ==
    \E i \in DOMAIN root.elems :
        InputSourceRule(root.elems[i]) \/ MediaRule(root.elems[i])

\* C25: on a well-formed report the decision in Auto mode is Feeder exactly
\* when a textual indicator or a structural rule matches; a match of one
\* channel stands whatever the other channel finds.
C25_ChannelsCombinedByOr ==
    (r_path = "start_job" /\ r_override \in {"Auto", "None"} /\ r_report.ok) =>
        LET root == fromstring(r_report.body)
        IN  root.ok =>
              (r_source = "Feeder" <=> (TextualMatch(r_report) \/ StructuralMatch(root)))

\* only the structural channel matches: <InputDeviceSource>Feeder</...>
C25_Witness ==
    /\ r_path = "start_job"
    /\ r_override = "Auto"
    /\ r_report.ok
    /\ r_source = "Feeder"
    /\ ~TextualMatch(r_report)
    /\ LET root == fromstring(r_report.body)
       IN  root.ok /\ StructuralMatch(root)

(***************************************************************************)
(* Properties of the duplex merge.                                         *)
(***************************************************************************)
\* C10: for documents of equal page count N the output has 2N pages, page 2k
\* is front page k and page 2k+1 is back page N-1-k, pages counted from 0.
C10_EqualLengthInterleave ==
    (merged /\ Len(front_pdf) = Len(back_pdf)) =>
        LET N == Len(front_pdf)
        IN  /\ Len(output_pdf) = 2 * N
            /\ \A k \in 0..(N - 1) :
                 /\ output_pdf[2 * k + 1] = front_pdf[k + 1]
                 /\ output_pdf[2 * k + 2] = back_pdf[(N - 1 - k) + 1]

\* fronts F1 F2 F3 and backs scanned last page first
C10_Witness ==
    /\ merged
    /\ front_pdf = <<"F1", "F2", "F3">>
    /\ back_pdf = <<"B3", "B2", "B1">>
    /\ output_pdf = <<"F1", "B1", "F2", "B2", "F3", "B3">>


(***************************************************************************)
(* ESCLScanner.cancel_job as a function of the handle it is given and of   *)
(* the answer to its DELETE.                                               *)
(***************************************************************************)
\* HTTP status codes
HttpStatuses == 100..599

\* faulty variant: only 200 counts as a success
cancel_job_Only200(st) == [ended |-> TRUE, raised |-> FALSE, value |-> st = 200]

\* lines 249-253; st = 0: requests.delete raised
cancel_job(st) ==
    IF st = 0 THEN [ended |-> TRUE, raised |-> FALSE, value |-> FALSE]
    ELSE [ended |-> TRUE, raised |-> FALSE, value |-> 200 <= st /\ st < 300]

InitQuery ==
    /\ ScanIdle
    /\ UiIdle
    /\ PrefIdle
    /\ DuplexIdle
    /\ ResolveIdle
    /\ MergeIdle
    /\ c_handle \in {JobLocation(loc, job).uri :
                        loc \in LocKinds \ {"none"}, job \in 1..MaxCalls}
    /\ c_status = 0
    /\ c_outcome = [ended |-> FALSE, raised |-> FALSE, value |-> FALSE]
    /\ q_op = "none"
    /\ q_status = 0
    /\ q_text = ""
    /\ q_outcome = [raised |-> FALSE, none |-> FALSE, text |-> ""]

CancelJob ==
    /\ ~c_outcome.ended
    /\ q_op = "none"
    /\ \E st \in HttpStatuses \cup {0} :
        \* requests raises MissingSchema for a URL without a scheme
        /\ IsAbsolute(c_handle) \/ st = 0
        /\ c_status' = st
        /\ c_outcome' = cancel_job(st)
    /\ UNCHANGED <<c_handle, q_op, q_status, q_text, q_outcome,
                   scanVars, resolveVars, mergeVars, duplexVars, prefVars, uiVars>>

\* bodies a device answers a query with
QueryTexts == {"", "<scan:ScannerCapabilities/>", "<scan:Jobs/>"}

\* lines 231-237; st = 0: requests.get raised
get_scanner_capabilities(st, text) ==
    IF st = 0 \/ RaisesForStatus(st)
    THEN [raised |-> FALSE, none |-> TRUE, text |-> ""]
    ELSE [raised |-> FALSE, none |-> FALSE, text |-> text]

\* faulty variant: the status is not looked at
list_jobs_AnyStatus(st, text) ==
    IF st = 0
    THEN [raised |-> FALSE, none |-> TRUE, text |-> ""]
    ELSE [raised |-> FALSE, none |-> FALSE, text |-> text]

\* lines 262-268; st = 0: requests.get raised
list_jobs(st, text) ==
    IF st = 0 \/ RaisesForStatus(st)
    THEN [raised |-> FALSE, none |-> TRUE, text |-> ""]
    ELSE [raised |-> FALSE, none |-> FALSE, text |-> text]

GetScannerCapabilities ==
    /\ q_op = "none"
    /\ ~c_outcome.ended
    /\ \E st \in HttpStatuses \cup {0}, text \in QueryTexts :
        /\ st = 0 => text = ""
        /\ q_status' = st
        /\ q_text' = text
        /\ q_outcome' = get_scanner_capabilities(st, text)
    /\ q_op' = "get_scanner_capabilities"
    /\ UNCHANGED <<c_handle, c_status, c_outcome, scanVars, resolveVars, mergeVars,
                   duplexVars, prefVars, uiVars>>

ListJobs ==
    /\ q_op = "none"
    /\ ~c_outcome.ended
    /\ \E st \in HttpStatuses \cup {0}, text \in QueryTexts :
        /\ st = 0 => text = ""
        /\ q_status' = st
        /\ q_text' = text
        /\ q_outcome' = list_jobs(st, text)
    /\ q_op' = "list_jobs"
    /\ UNCHANGED <<c_handle, c_status, c_outcome, scanVars, resolveVars, mergeVars,
                   duplexVars, prefVars, uiVars>>

NextQuery == CancelJob \/ GetScannerCapabilities \/ ListJobs

SpecQuery == InitQuery /\ [][NextQuery]_vars

\* C16: cancel_job does not raise; it returns TRUE exactly when the DELETE
\* was answered with a status from 200 to 299, and FALSE for any other
\* status and when no answer came.
C16_CancelReportsAck ==
    c_outcome.ended =>
        /\ ~c_outcome.raised
        /\ c_outcome.value <=> c_status \in 200..299

\* the device answered 204 and cancel_job returned TRUE
C16_Witness ==
    /\ c_status = 204
    /\ c_outcome = [ended |-> TRUE, raised |-> FALSE, value |-> TRUE]

\* the pages of s that are p
Occurrences(s, p) == Cardinality({i \in DOMAIN s : s[i] = p})

\* C11: for documents of any page counts the merge writes, for i from 0 to
\* max(len(front), len(back)) - 1, front page i if there is one and then page i
\* of the reversed back if there is one: the pages of the common range
\* alternate, the pages left of the longer document follow in their order, the
\* output has len(front) + len(back) pages and holds every input page as often
\* as the inputs do.
C11_AnyLengthInterleave ==
    merged =>
        LET F == Len(front_pdf)
            B == Len(back_pdf)
            m == IF F <= B THEN F ELSE B
        IN  /\ Len(output_pdf) = F + B
            /\ \A i \in 0..(m - 1) :
                 /\ output_pdf[2 * i + 1] = front_pdf[i + 1]
                 /\ output_pdf[2 * i + 2] = back_pdf[B - i]
            /\ \A i \in m..(F - 1) : output_pdf[m + i + 1] = front_pdf[i + 1]
            /\ \A i \in m..(B - 1) : output_pdf[m + i + 1] = back_pdf[B - i]
            /\ \A p \in FrontPages \cup BackPages :
                 Occurrences(output_pdf, p)
                     = Occurrences(front_pdf, p) + Occurrences(back_pdf, p)

\* two fronts and one back
C11_Witness ==
    /\ merged
    /\ front_pdf = <<"F1", "F2">>
    /\ back_pdf = <<"B1">>
    /\ output_pdf = <<"F1", "B1", "F2">>


(***************************************************************************)
(* Properties of the handle start_job returns.                             *)
(***************************************************************************)
\* the Location header of the submission start_job returned on
AcceptedLocation ==
    LET posts == {i \in DOMAIN net : IsPost(net[i])}
        last == CHOOSE i \in posts : \A j \in posts : j <= i
    IN  LocationHeader(net[last].loc, job_location.job)

IsPrefix(p, s) == Len(p) <= Len(s) /\ SubSeq(s, 1, Len(p)) = p

\* C12: the handle of a submission accepted with a Location that starts with
\* "/" is an absolute URI made of the client's base followed by the path of
\* the header; the handle of one accepted with an absolute Location is the
\* header.  The headers are paths of plain segments.
C12_LocationResolved ==
    job_location # NoJob =>
        /\ startswith_slash(AcceptedLocation) =>
             /\ IsAbsolute(job_location.uri)
             /\ IsPrefix(base, job_location.uri)
             /\ \E n \in 1..Len(AcceptedLocation) :
                  /\ \A i \in 1..(n - 1) : AcceptedLocation[i] = "/"
                  /\ AcceptedLocation[n] # "/"
                  /\ SubSeq(job_location.uri, Len(base) + 1, Len(job_location.uri))
                       = SubSeq(AcceptedLocation, n, Len(AcceptedLocation))
        /\ IsAbsolute(AcceptedLocation) => job_location.uri = AcceptedLocation

\* the fallback submission was accepted with the Location /Jobs/<n>
C12_Witness ==
    /\ job_location # NoJob
    /\ FallbackPosts # {}
    /\ AcceptedLocation = <<"/", "Jobs", "/", ToString(job_location.job)>>
    /\ job_location.uri = <<"http://", "dev", "/", "eSCL", "/", "Jobs", "/",
                            ToString(job_location.job)>>

\* C13: every handle start_job returns is an absolute URI.
C13_HandleAbsolute ==
    job_location # NoJob => IsAbsolute(job_location.uri)


(***************************************************************************)
(* Properties of the request body.                                         *)
(***************************************************************************)
\* C14: every POST to ScanJobs whose input source is Platen, primary or
\* fallback, has Simplex as its duplex element, whatever the settings.
C14_PlatenIsSimplex ==
    \A i \in DOMAIN net :
        (IsPost(net[i]) /\ net[i].xml.InputSource = "Platen")
            => net[i].xml.Duplex = "Simplex"

\* a primary submission to Platen and a fallback submission to Platen have
\* been sent, the latter with settings other than the defaults
C14_Witness ==
    /\ \E i \in FallbackPosts :
         /\ net[i].xml.InputSource = "Platen"
         /\ net[i].xml.Duplex = "Simplex"
         /\ net[i].xml.XResolution = 600
         /\ net[i].xml.ColorMode = "Grayscale"
    /\ \E i \in PrimaryPosts : net[i].xml.InputSource = "Feeder"


\* the call ended with a DELETE that failed: no response, or a status
\* other than 2xx
ReleaseFailed ==
    /\ pc \in {"done", "failed"}
    /\ Len(net) > 0
    /\ net[Len(net)].m = "DELETE"
    /\ ~(net[Len(net)].st \in 200..299)

\* C15: a failed DELETE leaves the outcome of fetch_pdf as the fetch made
\* it: the call returns when the document was retrieved and raises the
\* error of the fetch otherwise.
C15_ReleaseFailureIgnored ==
    ReleaseFailed =>
        /\ pending = "none" => (pc = "done" /\ result = Returned)
        /\ pending # "none" => (pc = "failed" /\ result = Raised(pending, None))

\* a fetch the device answered with an error status, followed by a DELETE
\* that got no response
C15_Witness ==
    /\ ReleaseFailed
    /\ net[Len(net)].st = 0
    /\ pending = "HTTPError"
    /\ result = Raised("HTTPError", None)
    /\ IsAbsolute(job_location.uri)


\* C18: with the override Feeder or Platen the decision is the override and
\* no GET ScannerStatus is sent, neither by start_job nor by the
\* application's _determine_scan_source.
C18_ForcedSourceSendsNothing ==
    (r_path # "none" /\ (ForcedFeeder \/ ForcedPlaten)) =>
        /\ r_requests = <<>>
        /\ r_source = IF ForcedFeeder THEN "Feeder" ELSE "Platen"

\* the application is set to the flatbed while the device would report a
\* loaded feeder: Platen is submitted and nothing was asked
C18_Witness ==
    /\ r_path = "app"
    /\ r_override = "Platen (Flatbed)"
    /\ FeederEvidence(r_report)
    /\ r_source = "Platen"
    /\ r_requests = <<>>

\* C19: _combine_duplex_pdfs leaves the front and the back document with the
\* pages they had, in the order they had.
C19_InputsUnchanged ==
    [][(merged' /\ ~merged) => (front_pdf' = front_pdf /\ back_pdf' = back_pdf)]_vars

\* a merge has run on a back document whose reversal differs from it
C19_Witness ==
    /\ merged
    /\ front_pdf = <<"F1", "F2">>
    /\ back_pdf = <<"B2", "B1">>
    /\ output_pdf = <<"F1", "B1", "F2", "B2">>


(***************************************************************************)
(* ScanApp.on_scan_manual_duplex: one action for each stretch of the       *)
(* handler between two dialogs or scans, with the files it names.          *)
(***************************************************************************)
\* the pages a pass through the feeder gives: the fronts in order, the backs
\* last sheet first
ScannedFront(n) == [i \in 1..n |-> "F" \o ToString(i)]
ScannedBack(n) == [i \in 1..n |-> "B" \o ToString(n + 1 - i)]

\* what the device sends for a pass: a PDF, or bytes that are not one
FrontDocuments == {Pdf(ScannedFront(n)) : n \in 0..MaxPages} \cup {Garbage}
BackDocuments == {Pdf(ScannedBack(n)) : n \in 0..MaxPages} \cup {Garbage}

\* how scan_to_pdf(out_path) ends
ScanOutcomes == {"raised before open", "raised while writing", "returned"}

\* the file at out_path after scan_to_pdf: fetch_pdf opens it 'wb' once the
\* GET is answered and writes the chunks as they come, unexamined
scan_to_pdf_file(old, outcome, doc) ==
    CASE outcome = "raised before open"   -> old
      [] outcome = "raised while writing" -> Garbage
      [] OTHER                            -> doc

\* what the operating system does with the opens and the write of the merge
MergeIO == {"ok", "front open fails", "back open fails", "output open fails",
            "write fails"}

\* faulty variant: the output is opened before the inputs are read
combine_duplex_files_OutputFirst(front, back, final, io) ==
    IF io = "output open fails" THEN [error |-> "output open", final |-> final]
    ELSE IF io = "front open fails" \/ front.kind = "absent"
         THEN [error |-> "front open", final |-> Garbage]
    ELSE IF io = "back open fails" \/ back.kind = "absent"
         THEN [error |-> "back open", final |-> Garbage]
    ELSE IF front.kind # "pdf" THEN [error |-> "front parse", final |-> Garbage]
    ELSE IF back.kind # "pdf" THEN [error |-> "back parse", final |-> Garbage]
    ELSE IF io = "write fails" THEN [error |-> "write", final |-> Garbage]
    ELSE [error |-> "none", final |-> Pdf(combine_duplex_pdfs(front.pages, back.pages))]

\* _combine_duplex_pdfs on files: the error it raises as RuntimeError, if
\* any, and the file at output_path afterwards
combine_duplex_files(front, back, final, io) ==
    IF io = "front open fails" \/ front.kind = "absent"       \* line 781
         THEN [error |-> "front open", final |-> final]
    ELSE IF io = "back open fails" \/ back.kind = "absent"    \* line 782
         THEN [error |-> "back open", final |-> final]
    ELSE IF front.kind # "pdf"                                \* line 786
         THEN [error |-> "front parse", final |-> final]
    ELSE IF back.kind # "pdf"                                 \* line 787
         THEN [error |-> "back parse", final |-> final]
    ELSE IF io = "output open fails"                          \* line 815
         THEN [error |-> "output open", final |-> final]
    ELSE IF io = "write fails"                                \* line 816
         THEN [error |-> "write", final |-> Garbage]
    ELSE [error |-> "none", final |-> Pdf(combine_duplex_pdfs(front.pages, back.pages))]

\* what os.remove does
RemoveIO == {"ok", "front remove fails", "back remove fails"}

\* lines 744-748: os.remove(front_path); os.remove(back_path), any
\* exception passed over; a failure of the first skips the second
cleanup(f, io) ==
    IF io = "front remove fails" THEN f
    ELSE IF io = "back remove fails" THEN [f EXCEPT !.recto = NoFile]
    ELSE [f EXCEPT !.recto = NoFile, !.verso = NoFile]


\* the handler starts with no temporary file and maybe a file already at
\* final_path and an earlier scan recorded
InitDuplex ==
    /\ ScanIdle
    /\ UiIdle
    /\ PrefIdle
    /\ ResolveIdle
    /\ MergeIdle
    /\ QueryIdle
    /\ d_pc = "idle"
    /\ files \in {[recto |-> NoFile, verso |-> NoFile, final |-> f] :
                    f \in {NoFile, Pdf(<<"old">>)}}
    /\ last_saved_path \in {"none", "earlier"}
    /\ d_error = "none"

\* lines 674-709: the class is looked up, the paths are made and the first
\* dialog is answered
DuplexPrompt1 ==
    /\ d_pc = "idle"
    /\ \E known \in BOOLEAN, ok \in BOOLEAN :
        /\ d_pc' = IF ~known THEN "error" ELSE IF ok THEN "scan front" ELSE "returned"
        /\ d_error' = IF ~known THEN "unknown class" ELSE "none"
    /\ UNCHANGED <<files, last_saved_path, scanVars, resolveVars, mergeVars, queryVars, prefVars, uiVars>>

\* line 716: scan_to_pdf(front_path)
DuplexScanFront ==
    /\ d_pc = "scan front"
    /\ \E outcome \in ScanOutcomes, doc \in FrontDocuments :
        /\ files' = [files EXCEPT !.recto = scan_to_pdf_file(@, outcome, doc)]
        /\ d_pc' = IF outcome = "returned" THEN "prompt 2" ELSE "error"
        /\ d_error' = IF outcome = "returned" THEN "none" ELSE "scan"
    /\ UNCHANGED <<last_saved_path, scanVars, resolveVars, mergeVars, queryVars, prefVars, uiVars>>

\* lines 719-729: the second dialog
DuplexPrompt2 ==
    /\ d_pc = "prompt 2"
    /\ \E ok \in BOOLEAN : d_pc' = IF ok THEN "scan back" ELSE "returned"
    /\ UNCHANGED <<files, last_saved_path, d_error, scanVars, resolveVars, mergeVars,
                   queryVars, prefVars, uiVars>>

\* line 735: scan_to_pdf(back_path)
DuplexScanBack ==
    /\ d_pc = "scan back"
    /\ \E outcome \in ScanOutcomes, doc \in BackDocuments :
        /\ files' = [files EXCEPT !.verso = scan_to_pdf_file(@, outcome, doc)]
        /\ d_pc' = IF outcome = "returned" THEN "combine" ELSE "error"
        /\ d_error' = IF outcome = "returned" THEN "none" ELSE "scan"
    /\ UNCHANGED <<last_saved_path, scanVars, resolveVars, mergeVars, queryVars, prefVars, uiVars>>

\* lines 737-771: the merge, the removal of the two temporary files and the
\* record of the final path; a RuntimeError of the merge goes to the handler
\* of line 767
DuplexCombine ==
    /\ d_pc = "combine"
    /\ \E io \in MergeIO, rm \in RemoveIO :
        LET c == combine_duplex_files(files.recto, files.verso, files.final, io)
        IN  /\ d_error' = c.error
            /\ IF c.error # "none" THEN
                   /\ files' = [files EXCEPT !.final = c.final]
                   /\ d_pc' = "error"
                   /\ UNCHANGED last_saved_path
               ELSE
                   /\ files' = cleanup([files EXCEPT !.final = c.final], rm)
                   /\ last_saved_path' = "final"
                   /\ d_pc' = "done"
    /\ UNCHANGED <<scanVars, resolveVars, mergeVars, queryVars, prefVars, uiVars>>

NextDuplex ==
    DuplexPrompt1 \/ DuplexScanFront \/ DuplexPrompt2 \/ DuplexScanBack \/ DuplexCombine

SpecDuplex == InitDuplex /\ [][NextDuplex]_vars

\* the merge could not open or parse one of its inputs
InputErrors == {"front open", "back open", "front parse", "back parse"}

\* C17: when the merge cannot open or parse the front or the back document,
\* it raises, the file at the final path stays as it was (absent or with its
\* old content), and last_saved_path is not set to the final path.
C17_NoOutputOnBadInput ==
    [][(d_pc = "combine" /\ d_error' \in InputErrors) =>
          /\ d_pc' = "error"
          /\ files'.final = files.final
          /\ last_saved_path' = last_saved_path
          /\ last_saved_path' # "final"]_vars

\* the back pass gave bytes that are not a PDF; the merge failed and the
\* file that was at the final path is still there
C17_Witness ==
    /\ d_pc = "error"
    /\ d_error = "back parse"
    /\ files.recto = Pdf(<<"F1", "F2">>)
    /\ files.verso = Garbage
    /\ files.final = Pdf(<<"old">>)
    /\ last_saved_path = "earlier"

\* C20: when the manual-duplex run has made both passes and the merge, the
\* final file exists and neither the _recto nor the _verso file does.
C20_TemporariesDeleted ==
    d_pc = "done" =>
        /\ files.final.kind = "pdf"
        /\ files.recto = NoFile
        /\ files.verso = NoFile


(***************************************************************************)
(* Properties of what on_scan tells the user.                              *)
(***************************************************************************)
\* on_scan, lines 551-574: the source named in the success message for a
\* scan_to_pdf called with input_source = source
scan_details_source(src) == src

\* the last POST of the call
LastPost ==
    LET posts == {i \in DOMAIN net : IsPost(net[i])}
    IN  CHOOSE i \in posts : \A j \in posts : j <= i

\* C21: after a successful scan started by on_scan (which passes Feeder or
\* Platen), the source named to the user is the source of the submission the
\* device accepted, also when that was the fallback submission.
C21_ReportedSourceIsUsed ==
    (pc = "done" /\ input_source \in {"Feeder", "Platen"}) =>
        scan_details_source(input_source) = net[LastPost].src


\* C22: get_scanner_capabilities and list_jobs do not raise; they return
\* None when the GET got no answer or an error status (400 and above), and
\* the body of the answer otherwise.
C22_QueriesNeverRaise ==
    q_op # "none" =>
        /\ ~q_outcome.raised
        /\ (q_status = 0 \/ q_status >= 400) => q_outcome.none
        /\ (q_status # 0 /\ q_status < 400) =>
              (~q_outcome.none /\ q_outcome.text = q_text)

\* list_jobs answered with 503 and a body: None comes back
C22_Witness ==
    /\ q_op = "list_jobs"
    /\ q_status = 503
    /\ q_text = "<scan:Jobs/>"
    /\ q_outcome = [raised |-> FALSE, none |-> TRUE, text |-> ""]


(***************************************************************************)
(* The resolution on its way from the configuration file to the request:   *)
(* load_config, the preferences dialog and on_scan.                        *)
(***************************************************************************)
\* values config.yaml may hold for scanner.dpi: load_config returns what
\* yaml.safe_load read
ConfigDpis == {0, 50, 75, 150, 300, 600, 1200, 2400}

\* values the user may set the spin box to
SpinValues == {75, 100, 300, 1200}

\* QSpinBox.setValue within setRange(75, 1200)
spin_setValue(v) == IF v < 75 THEN 75 ELSE IF v > 1200 THEN 1200 ELSE v

\* int() of an integer
py_int(v) == v

InitPrefs ==
    /\ ScanIdle
    /\ UiIdle
    /\ ResolveIdle
    /\ MergeIdle
    /\ QueryIdle
    /\ DuplexIdle
    /\ cfg_dpi \in ConfigDpis
    /\ spin_dpi = 0
    /\ p_xml = NoXml

\* on_prefs: the dialog is made from the configuration
PrefsOpen ==
    /\ spin_dpi = 0
    /\ spin_dpi' = spin_setValue(py_int(cfg_dpi))
    /\ UNCHANGED <<cfg_dpi, p_xml, scanVars, resolveVars, mergeVars, queryVars, duplexVars, uiVars>>

\* the user sets the spin box
PrefsEdit ==
    /\ spin_dpi # 0
    /\ \E v \in SpinValues : spin_dpi' = spin_setValue(v)
    /\ UNCHANGED <<cfg_dpi, p_xml, scanVars, resolveVars, mergeVars, queryVars, duplexVars, uiVars>>

\* the dialog ends: Ok runs apply() and save_config, Cancel nothing
PrefsClose ==
    /\ spin_dpi # 0
    /\ \E accepted \in BOOLEAN :
        cfg_dpi' = IF accepted THEN py_int(spin_dpi) ELSE cfg_dpi
    /\ spin_dpi' = 0
    /\ UNCHANGED <<p_xml, scanVars, resolveVars, mergeVars, queryVars, duplexVars, uiVars>>

\* on_scan, lines 556-567 with start_job's line 63: the body of the request
OnScanSubmit ==
    /\ spin_dpi = 0
    /\ \E src \in {"Feeder", "Platen"} :
        p_xml' = build_job_xml(py_int(cfg_dpi), <<"Color">>, "A4", src)
    /\ UNCHANGED <<cfg_dpi, spin_dpi, scanVars, resolveVars, mergeVars, queryVars,
                   duplexVars, uiVars>>

NextPrefs == PrefsOpen \/ PrefsEdit \/ PrefsClose \/ OnScanSubmit

SpecPrefs == InitPrefs /\ [][NextPrefs]_vars

\* C23: every request on_scan submits has a resolution from 75 to 1200 dpi,
\* the same on both axes, whatever scanner.dpi the configuration holds.
C23_ResolutionInRange ==
    p_xml # NoXml =>
        /\ p_xml.XResolution \in 75..1200
        /\ p_xml.YResolution = p_xml.XResolution


(***************************************************************************)
(* Further properties of start_job and scan_to_pdf.                        *)
(***************************************************************************)
\* C24: a primary submission that gets no response (timeout, unreachable)
\* is the last request of start_job: no further POST follows on either
\* source and the call raises the transport failure.
C24_TransportFailureTerminal ==
    \A i \in PrimaryPosts :
        net[i].st = 0 =>
            /\ i = Len(net)
            /\ pc = "failed"
            /\ result = Raised("ConnectionError", None)

\* a busy answer, then a submission that got no response
C24_Witness ==
    /\ Len(net) = 2
    /\ PrimaryPosts = {1, 2}
    /\ net[1].st = 409
    /\ net[2].st = 0
    /\ pc = "failed"


\* start_job is running; it has returned a handle or raised
InStartJob == pc \in {"status", "post", "fallback"}
StartJobEnded == pc \in {"get", "failed", "delete", "done"}

\* every request of start_job is answered or times out (timeout=10 and
\* timeout=30 of lines 166, 74 and 96), so each step of start_job is taken
SpecLive ==
    Spec /\ WF_vars(GetStatus) /\ WF_vars(PostPrimary) /\ WF_vars(PostFallback)

\* C26: whatever the device answers, start_job ends, by a handle or by an
\* exception, and it has then sent at most 7 POSTs: at most 6 with the
\* resolved source and at most 1 with the opposite one.
C26_StartJobTerminates ==
    /\ [](/\ Cardinality(PrimaryPosts) <= 6
          /\ Cardinality(FallbackPosts) <= 1
          /\ Cardinality({i \in DOMAIN net : IsPost(net[i])}) <= 7)
    /\ InStartJob ~> StartJobEnded

\* six busy answers and a rejected fallback: start_job raised after 7 POSTs
C26_Witness ==
    /\ pc = "failed"
    /\ Cardinality(PrimaryPosts) = 6
    /\ Cardinality(FallbackPosts) = 1
    /\ \A i \in PrimaryPosts : net[i].st = 409
    /\ result.type = "RuntimeError: unable to start"


\* C27: when a primary submission, the first or one after busy answers, is
\* accepted with a Location, start_job returns the handle of that job and no
\* POST with the opposite source is sent.
C27_PrimaryAcceptanceReturned ==
    \A i \in PrimaryPosts :
        (net[i].st # 0 /\ ~RaisesForStatus(net[i].st) /\ net[i].loc # "none") =>
            /\ FallbackPosts = {}
            /\ i = LastPost
            /\ StartJobEnded
            /\ job_location.job = next_job - 1
            /\ job_location = JobLocation(net[i].loc, next_job - 1)

\* two busy answers, then the third primary submission is accepted
C27_Witness ==
    /\ Cardinality(PrimaryPosts) = 3
    /\ Cardinality({i \in PrimaryPosts : net[i].st = 409}) = 2
    /\ net[LastPost].st = 201
    /\ net[LastPost].loc = "slash"
    /\ FallbackPosts = {}
    /\ pc = "get"
    /\ job_location # NoJob


\* positions in net of the requests to the job
GetIndexes == {i \in DOMAIN net : net[i].m = "GET" /\ net[i].to = "NextDocument"}
DeleteIndexes == {i \in DOMAIN net : net[i].m = "DELETE"}

\* start_job of the running call raised
StartJobFailed == pc = "failed" /\ job_location = NoJob

\* C28: the GET of NextDocument goes to the handle that an accepted
\* submission of the same call gave and comes after that submission and
\* before the DELETE; when start_job raised, no GET and no DELETE is sent and
\* the output path is not opened.
C28_SubmitFetchRelease ==
    /\ \A i \in GetIndexes :
         /\ job_location # NoJob
         /\ net[i].job = job_location.job
         /\ LastPost < i
         /\ net[LastPost].st # 0 /\ ~RaisesForStatus(net[LastPost].st)
         /\ net[LastPost].loc # "none"
         /\ job_location = JobLocation(net[LastPost].loc, net[i].job)
    /\ \A i \in DeleteIndexes : \E j \in GetIndexes : j < i
    /\ StartJobFailed =>
         /\ GetIndexes = {}
         /\ DeleteIndexes = {}
         /\ out_path \in {"absent", "old"}

\* a second call, after one that fetched and released: its primary and its
\* fallback submission were rejected and nothing else was sent
C28_Witness ==
    /\ StartJobFailed
    /\ Len(net) = 2
    /\ IsRejection(net[1]) /\ IsRejection(net[2])
    /\ calls = 2
    /\ released # {}
    /\ out_path = "absent"


\* on_scan_manual_duplex, lines 694-699: the input_source both passes give
\* to scan_to_pdf
duplex_input_source == "Feeder"

\* C29: a pass of the manual-duplex flow (scan_to_pdf called with the forced
\* Feeder) that delivered its document was accepted for a request whose
\* input source is Feeder.
C29_DuplexPassesFromFeeder ==
    (pc = "done" /\ input_source = duplex_input_source /\ out_path = "complete") =>
        net[LastPost].xml.InputSource = "Feeder"


\* C30: when the manual-duplex flow ends without the final file (second
\* dialog cancelled, back scan failed, merge failed), neither the _recto nor
\* the _verso file is on disk.
C30_NoTemporariesOnAbort ==
    d_pc \in {"returned", "error"} =>
        /\ files.recto = NoFile
        /\ files.verso = NoFile


\* the GET of NextDocument of the step just taken got an error status or no
\* response
GetFailed(e) == e.m = "GET" /\ e.to = "NextDocument" /\ (e.st = 0 \/ e.st >= 400)

\* C31: when the GET of NextDocument is answered with an error status or
\* gets no response, the file at the output path stays as it was, absent or
\* with its old content, and fetch_pdf raises the error of the GET.
C31_FailedFetchLeavesOutput ==
    /\ [][(pc = "get" /\ Len(net') = Len(net) + 1 /\ GetFailed(net'[Len(net')])) =>
            /\ out_path' = out_path
            /\ pending' \in {"ConnectionError", "HTTPError"}]_vars
    /\ []((pc = "failed" /\ \E i \in DOMAIN net : GetFailed(net[i])) =>
            /\ out_path \in {"absent", "old"}
            /\ result.type \in {"ConnectionError", "HTTPError"})

\* the device answered the GET with 503: the call raised and the older file
\* at the output path is still there
C31_Witness ==
    /\ pc = "failed"
    /\ \E i \in DOMAIN net : GetFailed(net[i]) /\ net[i].st = 503
    /\ out_path = "old"
    /\ result = Raised("HTTPError", None)


(***************************************************************************)
(* The main window: the network monitor with its probe threads, the       *)
(* status row and the buttons.  A probe carries the number it was started  *)
(* with, which the program does not keep, to tell the probes apart.        *)
(***************************************************************************)
\* devices the preferences may name
Hosts == {"A", "B"}

\* threading.Thread(target=self._net_probe.run_once).start(): the thread
\* takes the address from the configuration as it is then (_extract_ip)
Probe(seq, host) == [seq |-> seq, host |-> host]

\* _update_net_ui, lines 453-460: the enabled state of a button of
\* printer_dependent_buttons; the two file buttons are switched on again
\* when a saved file exists
button_enabled(reachable) == reachable
file_button_enabled(reachable, saved, exists) ==
    IF saved /\ exists THEN TRUE ELSE button_enabled(reachable)

\* the window after __init__: start_net_monitor has started the first probe
InitUi ==
    /\ ScanIdle
    /\ ResolveIdle
    /\ MergeIdle
    /\ QueryIdle
    /\ DuplexIdle
    /\ PrefIdle
    /\ u_host \in Hosts
    /\ u_threads = {Probe(1, u_host)}
    /\ u_queue = <<>>
    /\ u_started = 1
    /\ u_restart = 0
    /\ net_label = NoProbe
    /\ btn_scan = TRUE
    /\ btn_open_file = FALSE
    /\ btn_open_loc = FALSE
    /\ u_saved = FALSE
    /\ u_exists = FALSE

\* the timer of line 478 fires: one more probe thread
TimerTick ==
    /\ u_started < MaxProbes
    /\ u_started' = u_started + 1
    /\ u_threads' = u_threads \cup {Probe(u_started + 1, u_host)}
    /\ UNCHANGED <<u_host, u_queue, u_restart, net_label, btn_scan, btn_open_file,
                   btn_open_loc, u_saved, u_exists,
                   scanVars, resolveVars, mergeVars, queryVars, duplexVars, prefVars>>

\* on_prefs accepted: the configuration is changed and start_net_monitor
\* stops the timer, makes a new _NetProbe and starts a probe at once; the
\* threads already running are left to finish
OnPrefsAccepted ==
    /\ u_started < MaxProbes
    /\ \E h \in Hosts : u_host' = h
    /\ u_started' = u_started + 1
    /\ u_restart' = u_started + 1
    /\ u_threads' = u_threads \cup {Probe(u_started + 1, u_host')}
    /\ UNCHANGED <<u_queue, net_label, btn_scan, btn_open_file, btn_open_loc, u_saved,
                   u_exists,
                   scanVars, resolveVars, mergeVars, queryVars, duplexVars, prefVars>>

\* a thread ends run_once: _check_printer_once has its answer and `done` is
\* emitted, to be delivered on the main thread
ProbeDone ==
    /\ \E p \in u_threads, reachable \in BOOLEAN :
        /\ u_threads' = u_threads \ {p}
        /\ u_queue' = Append(u_queue,
                             [seq |-> p.seq, host |-> p.host, reachable |-> reachable])
    /\ UNCHANGED <<u_host, u_started, u_restart, net_label, btn_scan, btn_open_file,
                   btn_open_loc, u_saved, u_exists,
                   scanVars, resolveVars, mergeVars, queryVars, duplexVars, prefVars>>

\* the main thread delivers the oldest emitted signal to _update_net_ui
UpdateNetUi ==
    /\ u_queue # <<>>
    /\ net_label' = Head(u_queue)
    /\ u_queue' = Tail(u_queue)
    /\ btn_scan' = button_enabled(Head(u_queue).reachable)
    /\ btn_open_file' = file_button_enabled(Head(u_queue).reachable, u_saved, u_exists)
    /\ btn_open_loc' = file_button_enabled(Head(u_queue).reachable, u_saved, u_exists)
    /\ UNCHANGED <<u_host, u_threads, u_started, u_restart, u_saved, u_exists,
                   scanVars, resolveVars, mergeVars, queryVars, duplexVars, prefVars>>

\* on_scan or on_scan_manual_duplex ends: on success the path is recorded
\* and the two file buttons are enabled; on failure nothing of this changes
ScanEnds ==
    /\ \E ok \in BOOLEAN :
        IF ok THEN /\ u_saved' = TRUE
                   /\ u_exists' = TRUE
                   /\ btn_open_file' = TRUE
                   /\ btn_open_loc' = TRUE
        ELSE UNCHANGED <<u_saved, u_exists, btn_open_file, btn_open_loc>>
    /\ UNCHANGED <<u_host, u_threads, u_queue, u_started, u_restart, net_label, btn_scan,
                   scanVars, resolveVars, mergeVars, queryVars, duplexVars, prefVars>>

\* the user removes the saved file outside the application
FileRemoved ==
    /\ u_saved /\ u_exists
    /\ u_exists' = FALSE
    /\ UNCHANGED <<u_host, u_threads, u_queue, u_started, u_restart, net_label, btn_scan,
                   btn_open_file, btn_open_loc, u_saved,
                   scanVars, resolveVars, mergeVars, queryVars, duplexVars, prefVars>>

NextUi ==
    TimerTick \/ OnPrefsAccepted \/ ProbeDone \/ UpdateNetUi \/ ScanEnds \/ FileRemoved

SpecUi == InitUi /\ [][NextUi]_vars

\* C32: the status row only ever moves to the result of a probe started
\* later than the one it shows; in particular a result of a probe started
\* before the last restart of the monitor does not replace one of a probe
\* started after it.
C32_ProbeResultsInOrder ==
    [][/\ net_label'.seq >= net_label.seq
       /\ ~(/\ u_restart > 0
            /\ net_label.seq >= u_restart
            /\ net_label'.seq < u_restart)]_vars

\* C33: "Ouvrir le fichier" and "Ouvrir l'emplacement" are enabled only
\* when a scanned file has been saved and exists.
C33_OpenButtonsNeedFile ==
    (btn_open_file \/ btn_open_loc) => (u_saved /\ u_exists)

=============================================================================
